---------------------------- MODULE Spec2Model ----------------------------
(***************************************************************************)
(* A model of clim2parquet: the filename-to-admin-unit resolution of       *)
(* src/src/clim2parquet/tools.py (_get_level_pattern, _get_admin_data,     *)
(* _pad_admin_levels, _add_admin_data, _find_clim_files) and the batch     *)
(* wrappers of src/src/clim2parquet/__init__.py (clim_to_parquet and the   *)
(* per-source *_to_parquet functions).                                     *)
(* Further specifications model a whole call of _files_to_parquet, the     *)
(* script src/data-raw/admin_unit_ids.py, and a reference table built from *)
(* a corpus of file names and then used on that corpus.                    *)
(*                                                                         *)
(* Strings are sequences of one-character strings, so that the regular     *)
(* expression search, str.strip, re.findall and int() are computed as the  *)
(* code computes them.  A Python Optional is a sequence of length 0 (None) *)
(* or 1.                                                                   *)
(***************************************************************************)
EXTENDS Integers, Sequences, FiniteSets, TLC

VARIABLES
    pc,               \* position in one iteration of _files_to_parquet's loop
    codes,            \* the integers the file's name was written from
    filename,         \* str(file)
    admin_level,      \* the admin_level argument
    data,             \* the DataFrame read from the file
    match_0,          \* Optional: re.search(...).group(0), before stripping
    admin_data,       \* Optional: the list _get_admin_data returns
    admin_unit_uids,  \* the reference table handed to _add_admin_data
    matched,          \* the rows of the table left by the filter
    err,              \* the exception that ended the iteration, or ""
    b_pc,             \* position in clim_to_parquet
    b_in,             \* clim_to_parquet's arguments and the file system
    b_i,              \* index of the admin level being converted
    b_k,              \* index of the wrapper being called
    b_listed,         \* number of directory listings made
    b_warnings,       \* the warnings emitted, in order
    b_written,        \* the output files written
    b_processed,      \* the (wrapper, level) pairs whose wrapper returned
    b_err,            \* the exception that ended the batch, or ""
    gadm,             \* data-raw/admin_unit_ids.py: position and data frames
    loop,             \* a whole call of _files_to_parquet
    trip              \* a table built from a corpus, then used on the corpus

vars == <<pc, codes, filename, admin_level, data, match_0, admin_data,
          admin_unit_uids, matched, err,
          b_pc, b_in, b_i, b_k, b_listed, b_warnings, b_written,
          b_processed, b_err, gadm, loop, trip>>

fileVars == <<pc, codes, filename, admin_level, data, match_0, admin_data,
              admin_unit_uids, matched, err>>

batchVars == <<b_pc, b_in, b_i, b_k, b_listed, b_warnings, b_written,
               b_processed, b_err>>

----------------------------------------------------------------------------
(* Bounds of the model *)

\* the most digit groups a file name carries after the version marker
MaxGroups == 4

\* the most rows of a reference table
MaxTable == 2

\* the rows of a CSV file
MaxRows == 2

\* the most admin levels in one clim_to_parquet call
MaxLevels == 2

----------------------------------------------------------------------------
(* Characters and numbers *)

Digits == {"0", "1", "2", "3", "4", "5", "6", "7", "8", "9"}

DigitVal ==
    ("0" :> 0) @@ ("1" :> 1) @@ ("2" :> 2) @@ ("3" :> 3) @@ ("4" :> 4) @@
    ("5" :> 5) @@ ("6" :> 6) @@ ("7" :> 7) @@ ("8" :> 8) @@ ("9" :> 9)

DigitChar == <<"0", "1", "2", "3", "4", "5", "6", "7", "8", "9">>

\* int(s) for a run of decimal digits
RECURSIVE IntOf(_)
IntOf(s) ==
    IF s = <<>> THEN 0
    ELSE 10 * IntOf(SubSeq(s, 1, Len(s) - 1)) + DigitVal[s[Len(s)]]

\* the decimal digits a number is written with in a file name
RECURSIVE DigitsOf(_)
DigitsOf(n) ==
    IF n < 10 THEN <<DigitChar[n + 1]>>
    ELSE DigitsOf(n \div 10) \o <<DigitChar[(n % 10) + 1]>>

\* the missing value of a DataFrame cell (NaN / None)
Null == -1

\* _gadm_levels()
gadm_levels == {0, 1, 2, 3}

\* _gadm_versions(): "v410"
v410 == <<"v", "4", "1", "0">>

gadm_versions == {v410}

----------------------------------------------------------------------------
(* Regular expressions and string functions *)

\* the end (exclusive) of the longest run of digits of s starting at p
RECURSIVE DigitRunEnd(_, _)
DigitRunEnd(s, p) ==
    IF p <= Len(s) /\ s[p] \in Digits THEN DigitRunEnd(s, p + 1) ELSE p

\* (\d+_){n} at position p of s: the position after it, or 0
RECURSIVE MatchGroups(_, _, _)
MatchGroups(s, p, n) ==
    IF n = 0 THEN p
    ELSE LET e == DigitRunEnd(s, p)
         IN  IF e > p /\ e <= Len(s) /\ s[e] = "_"
             THEN MatchGroups(s, e + 1, n - 1)
             ELSE 0

\* a data_regex at position p of s: "\\d" is the digit class, any other
\* item a literal character; the position after it, or 0
RECURSIVE MatchItems(_, _, _)
MatchItems(s, p, items) ==
    IF items = <<>> THEN p
    ELSE IF p > Len(s) THEN 0
    ELSE IF (Head(items) = "\\d" /\ s[p] \in Digits)
            \/ (Head(items) # "\\d" /\ s[p] = Head(items))
         THEN MatchItems(s, p + 1, Tail(items))
         ELSE 0

\* the pattern rf"{version}_(\d+_){{{rep_count}}}{data_pattern}" matched at
\* position p of s: the position after the match, or 0
MatchAt(pattern, s, p) ==
    LET lit == pattern.version \o <<"_">>
        q   == p + Len(lit)
    IN  IF q - 1 <= Len(s) /\ SubSeq(s, p, q - 1) = lit
        THEN LET g == MatchGroups(s, q, pattern.rep_count)
             IN  IF g = 0 THEN 0 ELSE MatchItems(s, g, pattern.data_pattern)
        ELSE 0

\* a search that takes only a match no further digit group follows
re_search_whole_groups(pattern, s) ==
    LET ends(p) == MatchAt(pattern, s, p)
        starts == {p \in 1..Len(s) :
                     /\ ends(p) # 0
                     /\ ~(ends(p) <= Len(s) /\ s[ends(p)] \in Digits)}
    IN  IF starts = {} THEN <<>>
        ELSE LET p == CHOOSE x \in starts : \A y \in starts : x <= y
             IN  <<SubSeq(s, p, ends(p) - 1)>>

\* re.search(pattern, s): None, or the leftmost match's group(0)
ReSearch(pattern, s) ==
    LET starts == {p \in 1..Len(s) : MatchAt(pattern, s, p) # 0}
    IN  IF starts = {} THEN <<>>
        ELSE LET p == CHOOSE x \in starts : \A y \in starts : x <= y
             IN  <<SubSeq(s, p, MatchAt(pattern, s, p) - 1)>>

\* str.strip(chars): drops every leading and trailing character of chars
RECURSIVE LStrip(_, _)
LStrip(s, chars) ==
    IF s # <<>> /\ Head(s) \in chars THEN LStrip(Tail(s), chars) ELSE s

RECURSIVE RStrip(_, _)
RStrip(s, chars) ==
    IF s # <<>> /\ s[Len(s)] \in chars
    THEN RStrip(SubSeq(s, 1, Len(s) - 1), chars)
    ELSE s

Strip(s, chars) == RStrip(LStrip(s, chars), chars)

CharsOf(s) == {s[i] : i \in 1..Len(s)}

\* re.findall(r"\d+", s): the maximal runs of digits, in order
RECURSIVE ReFindAllDigits(_)
ReFindAllDigits(s) ==
    IF s = <<>> THEN <<>>
    ELSE IF Head(s) \in Digits
         THEN LET e == DigitRunEnd(s, 1)
              IN  <<SubSeq(s, 1, e - 1)>> \o ReFindAllDigits(SubSeq(s, e, Len(s)))
         ELSE ReFindAllDigits(Tail(s))

\* [f(x) for x in s]
RECURSIVE MapInt(_)
MapInt(s) == IF s = <<>> THEN <<>> ELSE <<IntOf(Head(s))>> \o MapInt(Tail(s))

\* [x] * n, which is [] for n <= 0
RECURSIVE Repeat(_, _)
Repeat(x, n) == IF n <= 0 THEN <<>> ELSE <<x>> \o Repeat(x, n - 1)

----------------------------------------------------------------------------
(* tools.py: the pattern builder and the admin-code extractor *)

\* rep_count = admin_level + ((admin_level > 0) * 1), without the + 1
level_pattern_no_gid(level, gadm_version) ==
    [version |-> gadm_version, rep_count |-> level, data_pattern |-> <<>>]

\* a pattern that consumes two digit groups at every level below the country
level_pattern_two_groups(level, gadm_version) ==
    [version |-> gadm_version, rep_count |-> IF level > 0 THEN 2 ELSE 0,
     data_pattern |-> <<>>]

_get_level_pattern(level, gadm_version) ==
    LET rep_count == level + (IF level > 0 THEN 1 ELSE 0)
    IN  [version |-> gadm_version, rep_count |-> rep_count,
         data_pattern |-> <<>>]

\* padding that forgets the country slot of levels 1..3
pad_no_country_slot(admin, level, pad_len) ==
    admin \o Repeat(0, (pad_len + 1) - Len(admin))

\* padding that does not lengthen the list of a country-level file
pad_fixed_len(admin, level, pad_len) ==
    LET zero_counter == IF level > 0 THEN 1 ELSE 0
    IN  Repeat(0, zero_counter) \o admin \o Repeat(0, pad_len - Len(admin))

_pad_admin_levels(admin, level, pad_len) ==
    LET admin_0_identifier == 0
        zero_counter == IF level > 0 THEN 1 ELSE 0
        pad == IF level = 0 THEN pad_len + 1 ELSE pad_len
    IN  Repeat(admin_0_identifier, zero_counter) \o admin
            \o Repeat(0, pad - Len(admin))

\* a reading of the integers that takes the first, not the last, for the
\* GID code version
admin_data_version_first(m, gadm_version) ==
    LET stripped == Strip(Strip(m, CharsOf(gadm_version)), {"_"})
    IN  IF stripped # <<>>
        THEN LET ints == MapInt(ReFindAllDigits(stripped))
                 gid_code == ints[1]
                 admin == SubSeq(ints, 2, Len(ints))
                 inferred_admin_level == Len(admin)
             IN  Append(_pad_admin_levels(admin, inferred_admin_level, 3),
                        gid_code)
        ELSE Append(_pad_admin_levels(<<0>>, 0, 3), 1)

\* what follows re.search in _get_admin_data, for the matched text m
AdminDataOf(m, gadm_version) ==
    LET stripped == Strip(Strip(m, CharsOf(gadm_version)), {"_"})
    IN  IF stripped # <<>>
        THEN LET ints == MapInt(ReFindAllDigits(stripped))
                 gid_code == ints[Len(ints)]
                 admin == SubSeq(ints, 1, Len(ints) - 1)
                 inferred_admin_level == Len(admin)
             IN  Append(_pad_admin_levels(admin, inferred_admin_level, 3),
                        gid_code)
        ELSE Append(_pad_admin_levels(<<0>>, 0, 3), 1)

\* an extractor that takes a failed search for a country-level file
get_admin_data_none_as_country(name, level, gadm_version) ==
    LET m == ReSearch(_get_level_pattern(level, gadm_version), name)
    IN  [match |-> m,
         result |-> IF m = <<>> THEN <<AdminDataOf(<<>>, gadm_version)>>
                    ELSE <<AdminDataOf(m[1], gadm_version)>>,
         error |-> ""]

\* _get_admin_data: the match, the returned list (none when match is None
\* and match.group raises AttributeError)
_get_admin_data(name, level, gadm_version) ==
    LET m == ReSearch(_get_level_pattern(level, gadm_version), name)
    IN  IF m = <<>>
        THEN [match |-> m, result |-> <<>>, error |-> "AttributeError"]
        ELSE [match |-> m, result |-> <<AdminDataOf(m[1], gadm_version)>>,
              error |-> ""]


----------------------------------------------------------------------------
(* tools.py: the row annotator *)

\* the comparison of a table cell with a value, as pandas' == makes it: a
\* missing cell (NaN / None) equals nothing, not even a missing value
CellEq(cell, value) == cell # Null /\ value # Null /\ cell = value

\* a filter that leaves the GID code version out
filter_without_gid_code(table, admin) ==
    SelectSeq(table, LAMBDA r :
        /\ CellEq(r.admin_unit_0, admin[1])
        /\ CellEq(r.admin_unit_1, admin[2])
        /\ CellEq(r.admin_unit_2, admin[3])
        /\ CellEq(r.admin_unit_3, admin[4]))

\* admin_unit_uids[(...) & (...) & (...) & (...) & (...)]
FilterUids(table, admin) ==
    SelectSeq(table, LAMBDA r :
        /\ CellEq(r.admin_unit_0, admin[1])
        /\ CellEq(r.admin_unit_1, admin[2])
        /\ CellEq(r.admin_unit_2, admin[3])
        /\ CellEq(r.admin_unit_3, admin[4])
        /\ CellEq(r.gid_code_version, admin[5]))

\* data["admin_unit_uid"] = uid: the column is set on every row
SetColumn(df, col, value) ==
    [columns |-> IF \E i \in 1..Len(df.columns) : df.columns[i] = col
                 THEN df.columns ELSE Append(df.columns, col),
     rows |-> [i \in 1..Len(df.rows) |-> Append(df.rows[i], value)]]

\* an annotator that stamps the first row of the table when nothing matches
add_admin_data_default_row(df, admin, table) ==
    LET rows == FilterUids(table, admin)
    IN  IF rows = <<>> /\ table = <<>>
        THEN [rows |-> rows, data |-> df, error |-> "IndexError"]
        ELSE [rows |-> rows,
              data |-> SetColumn(df, "admin_unit_uid",
                                 IF rows = <<>> THEN table[1].uid ELSE rows[1].uid),
              error |-> ""]

\* _add_admin_data: the rows the filter leaves, the DataFrame afterwards
\* (values[0] of no row raises IndexError before the column is set)
_add_admin_data(df, admin, table) ==
    LET rows == FilterUids(table, admin)
    IN  IF rows = <<>>
        THEN [rows |-> rows, data |-> df, error |-> "IndexError"]
        ELSE [rows |-> rows,
              data |-> SetColumn(df, "admin_unit_uid", rows[1].uid),
              error |-> ""]

----------------------------------------------------------------------------
(* The inputs: file names, CSV files, reference tables *)

\* the admin-unit codes and GID code versions written in file names
CodeVals == {0, 1, 10}

CodeSeqs == UNION {[1..n -> CodeVals] : n \in 0..MaxGroups}

RECURSIVE GroupsText(_)
GroupsText(cs) ==
    IF cs = <<>> THEN <<>>
    ELSE DigitsOf(Head(cs)) \o <<"_">> \o GroupsText(Tail(cs))

CHIRPS == <<"C", "H", "I", "R", "P", "S">>

PERSIANN == <<"P", "E", "R", "S", "I", "A", "N", "N">>

\* a file name of the convention '*_v410_1_2_3_4_clim.csv'
FileName(cs, source) ==
    <<"Z", "Z", "Z", "_">> \o v410 \o <<"_">> \o GroupsText(cs) \o source
        \o <<".", "c", "s", "v">>

\* pd.read_csv(file): a table of one column
CsvData(n) ==
    [columns |-> <<"value">>, rows |-> [i \in 1..n |-> <<10 * i>>]]

\* the rows a reference table is made of; its uid column is range(len)
TableCells ==
    [admin_unit_0 : {0}, admin_unit_1 : {Null, 0, 1},
     admin_unit_2 : {Null, 0}, admin_unit_3 : {Null, 0},
     gid_code_version : {1, 10}]

TableRows == {r \in TableCells : (r.admin_unit_2 = Null) <=> (r.admin_unit_3 = Null)}

WithUid(cells) ==
    [i \in 1..Len(cells) |->
        [admin_unit_0 |-> cells[i].admin_unit_0,
         admin_unit_1 |-> cells[i].admin_unit_1,
         admin_unit_2 |-> cells[i].admin_unit_2,
         admin_unit_3 |-> cells[i].admin_unit_3,
         gid_code_version |-> cells[i].gid_code_version,
         uid |-> i - 1]]

Tables == {WithUid(c) : c \in UNION {[1..n -> TableRows] : n \in 0..MaxTable}}

----------------------------------------------------------------------------
(* One iteration of the loop of _files_to_parquet *)

InitFile ==
    /\ pc = "start"
    /\ codes = <<>>
    /\ filename = <<>>
    /\ admin_level = 0
    /\ data = CsvData(0)
    /\ match_0 = <<>>
    /\ admin_data = <<>>
    /\ admin_unit_uids = <<>>
    /\ matched = <<>>
    /\ err = ""

\* df = pd.read_csv(file, sep=",", header=0)
ReadCsv ==
    /\ pc = "start"
    /\ \E cs \in CodeSeqs, level \in gadm_levels :
        /\ codes' = cs
        /\ filename' = FileName(cs, CHIRPS)
        /\ admin_level' = level
        /\ data' = CsvData(MaxRows)
    /\ pc' = "read"
    /\ UNCHANGED <<match_0, admin_data, admin_unit_uids, matched, err>>
    /\ UNCHANGED <<batchVars, gadm, loop, trip>>

\* _get_admin_data(str(file), admin_level, gadm_version)
GetAdminData ==
    /\ pc = "read"
    /\ LET r == _get_admin_data(filename, admin_level, v410)
       IN  /\ match_0' = r.match
           /\ admin_data' = r.result
           /\ err' = r.error
           /\ pc' = IF r.error = "" THEN "extracted" ELSE "error"
    /\ UNCHANGED <<codes, filename, admin_level, data, admin_unit_uids, matched>>
    /\ UNCHANGED <<batchVars, gadm, loop, trip>>

\* _add_admin_data(df, ..., admin_unit_uids); data_list.append(df).  The
\* table is a read-only argument of _files_to_parquet that nothing reads
\* before this call, so its value is drawn here.
AddAdminData ==
    /\ pc = "extracted"
    /\ \E table \in Tables :
        LET r == _add_admin_data(data, admin_data[1], table)
        IN  /\ admin_unit_uids' = table
            /\ matched' = r.rows
            /\ data' = r.data
            /\ err' = r.error
            /\ pc' = IF r.error = "" THEN "annotated" ELSE "error"
    /\ UNCHANGED <<codes, filename, admin_level, match_0, admin_data>>
    /\ UNCHANGED <<batchVars, gadm, loop, trip>>

\* clim_to_parquet not called
IdleInput ==
    [dir_exists |-> TRUE, dir_to_exists |-> TRUE, dir |-> {},
     gadm_version |-> v410, levels |-> <<>>]

InitBatchIdle ==
    /\ b_pc = "start"
    /\ b_in = IdleInput
    /\ b_i = 0
    /\ b_k = 0
    /\ b_listed = 0
    /\ b_warnings = <<>>
    /\ b_written = {}
    /\ b_processed = {}
    /\ b_err = ""

\* data-raw/admin_unit_ids.py not run
InitGadmIdle == gadm = [pc |-> "start", data_gpd |-> <<>>, data_pd |-> <<>>, data |-> <<>>]

\* _files_to_parquet not called as a whole
InitLoopIdle ==
    loop = [pc |-> "start", files |-> <<>>, admin_level |-> 0,
            admin_unit_uids |-> <<>>, i |-> 0, data_list |-> <<>>,
            out |-> <<>>, err |-> ""]

\* no table built from a corpus
InitTripIdle == trip = [pc |-> "start", corpus |-> {}, table |-> <<>>, res |-> {}]

Init == InitFile /\ InitBatchIdle /\ InitGadmIdle /\ InitLoopIdle /\ InitTripIdle

Next == ReadCsv \/ GetAdminData \/ AddAdminData

Spec == Init /\ [][Next]_vars


----------------------------------------------------------------------------
(* data-raw/data_sources.py: the table behind _get_data_info() *)

regex_ERA5_mean ==
    <<"E", "R", "A", "5", "_", "L", "a", "n", "d", "_", "2", "m",
              "_", "t", "e", "m", "p", "e", "r", "a", "t", "u", "r",
              "e", "_", "\\d", "\\d", "\\d", "\\d">>

regex_ERA5_min ==
    <<"E", "R", "A", "5", "_", "L", "a", "n", "d", "_", "2", "m",
              "_", "t", "e", "m", "p", "e", "r", "a", "t", "u", "r",
              "e", "_", "d", "a", "y", "m", "i", "n">>

regex_ERA5_max ==
    <<"E", "R", "A", "5", "_", "L", "a", "n", "d", "_", "2", "m",
              "_", "t", "e", "m", "p", "e", "r", "a", "t", "u", "r",
              "e", "_", "d", "a", "y", "m", "a", "x">>

regex_ERA5_RH ==
    <<"E", "R", "A", "5", "_", "L", "a", "n", "d", "_", "r", "e",
              "l", "a", "t", "i", "v", "e", "_", "h", "u", "m", "i",
              "d", "i", "t", "y">>

regex_ERA5_SH ==
    <<"E", "R", "A", "5", "_", "L", "a", "n", "d", "_", "s", "p",
              "e", "c", "i", "f", "i", "c", "_", "h", "u", "m", "i",
              "d", "i", "t", "y">>

\* data_source -> (data_regex, data_output_name)
data_info ==
    [k \in {"CHIRPS", "ERA5_mean", "ERA5_min", "ERA5_max", "ERA5_RH",
            "ERA5_SH", "PERSIANN"} |->
        CASE k = "CHIRPS"    -> [data_regex |-> CHIRPS, data_output_name |-> "chirps"]
          [] k = "ERA5_mean" -> [data_regex |-> regex_ERA5_mean, data_output_name |-> "era5mean"]
          [] k = "ERA5_min"  -> [data_regex |-> regex_ERA5_min, data_output_name |-> "era5min"]
          [] k = "ERA5_max"  -> [data_regex |-> regex_ERA5_max, data_output_name |-> "era5max"]
          [] k = "ERA5_RH"   -> [data_regex |-> regex_ERA5_RH, data_output_name |-> "era5rh"]
          [] k = "ERA5_SH"   -> [data_regex |-> regex_ERA5_SH, data_output_name |-> "era5sh"]
          [] k = "PERSIANN"  -> [data_regex |-> PERSIANN, data_output_name |-> "persiann"]]

----------------------------------------------------------------------------
(* tools.py: the file finder and the output names *)

\* _find_clim_files: the matching files, whether the directory was listed,
\* the warnings emitted, and the exception raised: iterdir of a missing
\* directory raises FileNotFoundError, .item() of an empty selection (a
\* data_source that is no row of data_info) raises ValueError
_find_clim_files(fs, data_source, level, gadm_version) ==
    IF ~fs.dir_exists
    THEN [files |-> {}, listed |-> FALSE, warnings |-> <<>>,
          error |-> "FileNotFoundError"]
    ELSE IF data_source \notin DOMAIN data_info
    THEN [files |-> {}, listed |-> TRUE, warnings |-> <<>>,
          error |-> "ValueError"]
    ELSE LET level_pattern == _get_level_pattern(level, gadm_version)
             pattern == [level_pattern EXCEPT
                           !.data_pattern = data_info[data_source].data_regex]
             path_files == {f \in fs.dir : ReSearch(pattern, f) # <<>>}
         IN  [files |-> path_files, listed |-> TRUE,
              warnings |-> IF path_files = {}
                           THEN <<[data_source |-> data_source, level |-> level]>>
                           ELSE <<>>,
              error |-> ""]

\* _make_output_names: f"{data_output_name}_admin_{admin_level}.parquet",
\* none when data_source is no row of data_info (.item() raises ValueError)
_make_output_names(data_source, level) ==
    IF data_source \in DOMAIN data_info
    THEN <<[name |-> data_info[data_source].data_output_name, level |-> level]>>
    ELSE <<>>

\* whether sub occurs in s
Contains(s, sub) ==
    \E p \in 1..Len(s) :
        p + Len(sub) - 1 <= Len(s) /\ SubSeq(s, p, p + Len(sub) - 1) = sub

----------------------------------------------------------------------------
(* __init__.py: the per-source wrappers and clim_to_parquet *)

\* the wrappers in the order clim_to_parquet calls them: the data source
\* each hands to _find_clim_files, the data source its output is named
\* after, and the files it leaves out
Wrappers ==
    <<[fn |-> "chirps_to_parquet", data_source |-> "CHIRPS",
       output |-> "CHIRPS", exclude |-> <<>>],
      [fn |-> "era5mean_to_parquet", data_source |-> "ERA5_Land_2m_temperature",
       output |-> "ERA5_mean", exclude |-> <<"d", "a", "y">>],
      [fn |-> "era5max_to_parquet", data_source |-> "ERA5_Land_2m_temperature_daymax",
       output |-> "ERA5_max", exclude |-> <<>>],
      [fn |-> "era5min_to_parquet", data_source |-> "ERA5_Land_2m_temperature_daymin",
       output |-> "ERA5_min", exclude |-> <<>>],
      [fn |-> "era5rh_to_parquet", data_source |-> "ERA5_Land_relative_humidity",
       output |-> "ERA5_RH", exclude |-> <<>>],
      [fn |-> "era5sh_to_parquet", data_source |-> "ERA5_Land_specific_humidity",
       output |-> "ERA5_SH", exclude |-> <<>>],
      [fn |-> "persiann_to_parquet", data_source |-> "PERSIANN",
       output |-> "PERSIANN", exclude |-> <<>>]>>

\* one wrapper, e.g. chirps_to_parquet(dir, admin_level, to, gadm_version):
\* the files are found, those of the excluded kind are dropped, no file is
\* the early return, and tools._files_to_parquet(files, to) lacks three of
\* the five arguments that function requires, which raises TypeError
\* before it reads or writes anything
XToParquet(w, fs, level, gadm_version) ==
    LET found == _find_clim_files(fs, w.data_source, level, gadm_version)
        files == IF w.exclude = <<>> THEN found.files
                 ELSE {f \in found.files : ~Contains(f, w.exclude)}
    IN  [listed |-> found.listed, warnings |-> found.warnings, written |-> {},
         error |-> IF found.error # "" THEN found.error
                   ELSE IF files = {} THEN "" ELSE "TypeError"]

\* the gadm_version arguments tried: the supported one and "v4"
v4 == <<"v", "4">>

\* the admin levels tried: two supported ones and one out of range
BatchLevels == {0, 1, 99}

\* the files a source directory may hold
Corpus ==
    {FileName(<<>>, CHIRPS), FileName(<<1, 1>>, CHIRPS),
     FileName(<<>>, PERSIANN)}

\* clim_to_parquet's arguments (admin_level already a list) and the state
\* of the two directories
BatchInputs ==
    {inp \in [dir_exists : BOOLEAN, dir_to_exists : BOOLEAN,
              dir : SUBSET Corpus, gadm_version : {v410, v4},
              levels : UNION {[1..n -> BatchLevels] : n \in 0..MaxLevels}] :
        ~inp.dir_exists => inp.dir = {}}

\* the call: admin_level is made a list; the loop over it starts.  dir is a
\* pathlib.Path, as _find_clim_files requires of dir_from.
ClimToParquet ==
    /\ b_pc = "start"
    /\ \E inp \in BatchInputs :
        /\ b_in' = inp
        /\ b_pc' = IF inp.levels = <<>> THEN "done" ELSE "run"
    /\ b_i' = 1
    /\ b_k' = 1
    /\ UNCHANGED <<b_listed, b_warnings, b_written, b_processed, b_err>>
    /\ UNCHANGED <<fileVars, gadm, loop, trip>>

\* one wrapper call of the loop body; before the first, the seven output
\* names of the level are made
ToParquet ==
    /\ b_pc = "run"
    /\ LET level == b_in.levels[b_i]
           w == Wrappers[b_k]
           names == [k \in 1..Len(Wrappers) |->
                        _make_output_names(Wrappers[k].output, level)]
           r == IF \E k \in 1..Len(Wrappers) : names[k] = <<>>
                THEN [listed |-> FALSE, warnings |-> <<>>, written |-> {},
                      error |-> "ValueError"]
                ELSE XToParquet(w, b_in, level, b_in.gadm_version)
           last == b_k = Len(Wrappers)
       IN  /\ b_listed' = b_listed + (IF r.listed THEN 1 ELSE 0)
           /\ b_warnings' = b_warnings \o r.warnings
           /\ b_written' = b_written \union r.written
           /\ b_err' = r.error
           /\ b_processed' = IF r.error = ""
                             THEN b_processed \union {<<w.fn, b_i>>}
                             ELSE b_processed
           /\ b_pc' = IF r.error # "" THEN "error"
                      ELSE IF last /\ b_i = Len(b_in.levels) THEN "done"
                      ELSE "run"
           /\ b_k' = IF r.error # "" THEN b_k ELSE IF last THEN 1 ELSE b_k + 1
           /\ b_i' = IF r.error = "" /\ last THEN b_i + 1 ELSE b_i
    /\ UNCHANGED b_in
    /\ UNCHANGED <<fileVars, gadm, loop, trip>>

NextBatch == ClimToParquet \/ ToParquet

SpecBatch == Init /\ [][NextBatch]_vars


----------------------------------------------------------------------------
(* The claims about the pattern builder and the admin-code extractor *)

\* _get_admin_data has been called
AfterExtract == pc \notin {"start", "read"}

\* _add_admin_data has been called
AfterAnnotate == pc = "annotated" \/ (pc = "error" /\ err = "IndexError")

\* the digit groups a pattern of a level has to consume
GroupsOfLevel(level) ==
    CASE level = 0 -> 0 [] level = 1 -> 2 [] level = 2 -> 3 [] level = 3 -> 4

\* the number of digit groups in a matched text: its separators after the
\* one that ends the version marker
GroupsIn(m) == Cardinality({i \in 1..Len(m) : m[i] = "_"}) - 1

\* the list documented for a file name that carries the integers cs:
\* [0, 0, 0, 0, 1] for none, else 0, the codes, zeros, the last integer
DocumentedList(cs) ==
    IF cs = <<>> THEN <<0, 0, 0, 0, 1>>
    ELSE LET n == Len(cs)
         IN  [i \in 1..5 |->
                 IF i = 1 THEN 0
                 ELSE IF i = 5 THEN cs[n]
                 ELSE IF i <= n THEN cs[i - 1]
                 ELSE 0]

\* C1: for every level 0..3 the pattern matches the version marker followed
\* by exactly 0, 2, 3, 4 digit groups: whatever it matches is the marker and
\* the first that many groups of the name, and on a name of that level it
\* consumes all the name's groups.
C1_PatternConsumesGroups ==
    AfterExtract =>
        LET n == GroupsOfLevel(admin_level)
        IN  /\ match_0 # <<>> =>
                /\ GroupsIn(match_0[1]) = n
                /\ Len(codes) >= n
                /\ match_0[1] = v410 \o <<"_">> \o GroupsText(SubSeq(codes, 1, n))
            /\ Len(codes) = n =>
                /\ match_0 # <<>>
                /\ match_0[1] = v410 \o <<"_">> \o GroupsText(codes)

C1_Witness ==
    /\ pc = "extracted"
    /\ admin_level = 3
    /\ codes = <<1, 10, 0, 1>>
    /\ GroupsIn(match_0[1]) = 4

\* C2 (as the spec states it): of the n >= 2 integers of the matched text the
\* last is the code version, the others fill slots 0..(n-2) in order, and
\* every remaining slot is null.
C2_Original ==
    (admin_data # <<>> /\ GroupsIn(match_0[1]) >= 2) =>
        LET n == GroupsIn(match_0[1])
            a == admin_data[1]
        IN  /\ a[5] = codes[n]
            /\ \A i \in 0..(n - 2) : a[i + 1] = codes[i + 1]
            /\ \A j \in (n - 1)..3 : a[j + 1] = Null

\* C2 (amended): of the n >= 2 integers of the matched text the last is the
\* code version (element 4), the others fill slots 1..(n-1) in order, slot 0
\* is 0 and every remaining slot is 0, not null.
C2_LastIsVersionRestShifted ==
    (admin_data # <<>> /\ GroupsIn(match_0[1]) >= 2) =>
        LET n == GroupsIn(match_0[1])
            a == admin_data[1]
        IN  /\ Len(a) = 5
            /\ a[5] = codes[n]
            /\ a[1] = 0
            /\ \A i \in 1..(n - 1) : a[i + 1] = codes[i]
            /\ \A j \in n..3 : a[j + 1] = 0

C2_Witness ==
    /\ pc = "extracted"
    /\ admin_level = 2
    /\ codes = <<10, 1, 0>>
    /\ admin_data = << <<0, 10, 1, 0, 0>> >>

\* C3 (as the spec states it): level 0 on a name with no digit group gives
\* level0 = 0, level1..level3 = null and code version 1.
C3_Original ==
    (AfterExtract /\ admin_level = 0 /\ codes = <<>>) =>
        admin_data = << <<0, Null, Null, Null, 1>> >>

\* C3 (amended): level 0 on a name with no digit group gives level0 = 0,
\* level1..level3 = 0 (the zero padding, not null) and code version 1.
C3_CountryIsZeroPadded ==
    (AfterExtract /\ admin_level = 0 /\ codes = <<>>) =>
        /\ match_0 = <<v410 \o <<"_">> >>
        /\ admin_data = << <<0, 0, 0, 0, 1>> >>

C3_Witness ==
    /\ pc = "extracted"
    /\ admin_level = 0
    /\ codes = <<>>
    /\ Len(admin_data[1]) = 5

\* C4 (as the spec states it): a requested level that differs from the
\* depth of the name always ends in an error, never in a result.
C4_Original ==
    (AfterExtract /\ Len(codes) # GroupsOfLevel(admin_level)) =>
        /\ err = "AttributeError"
        /\ admin_data = <<>>

\* C4 (amended): a requested level deeper than the name (more groups wanted
\* than the name carries) ends in an error and no result; a requested level
\* shallower than the name does not fail: the result is the documented list
\* of the first groups the level's pattern consumes (for level 0 the
\* country-level list).
C4_DeeperFailsShallowerTruncates ==
    AfterExtract =>
        LET n == GroupsOfLevel(admin_level)
        IN  /\ Len(codes) < n => (err = "AttributeError" /\ admin_data = <<>>)
            /\ Len(codes) > n =>
                admin_data = <<DocumentedList(SubSeq(codes, 1, n))>>

C4_Witness ==
    /\ pc = "extracted"
    /\ admin_level = 1
    /\ codes = <<1, 10, 0, 1>>
    /\ admin_data = << <<0, 1, 0, 0, 10>> >>

\* C5: when the search finds no match (as for level 1 on a name with no
\* digit group) the extractor ends in an error and returns nothing.
C5_NoMatchIsError ==
    AfterExtract =>
        /\ (admin_level = 1 /\ codes = <<>>) => match_0 = <<>>
        /\ match_0 = <<>> =>
            (pc = "error" /\ err = "AttributeError" /\ admin_data = <<>>)
        /\ admin_data # <<>> => \A i \in 1..Len(admin_data[1]) : admin_data[1][i] # Null

C5_Witness ==
    /\ pc = "error"
    /\ admin_level = 1
    /\ codes = <<>>
    /\ match_0 = <<>>

----------------------------------------------------------------------------
(* The claims about the row annotator *)

CellsOf(r) ==
    <<r.admin_unit_0, r.admin_unit_1, r.admin_unit_2, r.admin_unit_3,
      r.gid_code_version>>

\* the rows of the table whose four slots and code version equal the list's
EqualRows == {i \in 1..Len(admin_unit_uids) : CellsOf(admin_unit_uids[i]) = admin_data[1]}

HasColumn(df, col) == \E i \in 1..Len(df.columns) : df.columns[i] = col

\* C6: with exactly one entry whose slots and code version equal the
\* AdminCode's, the annotator adds the identifier column and every row of
\* the dataset holds that entry's uid (the other columns are as read).
C6_EveryRowGetsTheUid ==
    (AfterAnnotate /\ Cardinality(EqualRows) = 1) =>
        LET e == admin_unit_uids[CHOOSE i \in EqualRows : TRUE]
        IN  /\ pc = "annotated"
            /\ data.columns = <<"value", "admin_unit_uid">>
            /\ \A i \in 1..Len(data.rows) : data.rows[i] = <<10 * i, e.uid>>

C6_Witness ==
    /\ pc = "annotated"
    /\ Len(data.rows) = 2
    /\ Len(admin_unit_uids) = 2
    /\ EqualRows = {2}
    /\ data.rows[2] = <<20, 1>>

\* C7: with no entry matching the AdminCode the annotator ends in an error
\* and the dataset is left as read, without the identifier column.
C7_NoMatchIsErrorNoColumn ==
    (AfterAnnotate /\ EqualRows = {}) =>
        /\ pc = "error"
        /\ err = "IndexError"
        /\ ~HasColumn(data, "admin_unit_uid")
        /\ data = CsvData(Len(data.rows))

C7_Witness ==
    /\ pc = "error"
    /\ err = "IndexError"
    /\ Len(admin_unit_uids) = 2
    /\ EqualRows = {}

\* the entries of a country: slot 0 is 0, slots 1..3 are null, version 1
CountryNullRows ==
    SelectSeq(admin_unit_uids, LAMBDA r :
        CellsOf(r) = <<0, Null, Null, Null, 1>>)

\* C8: matching is null-aware: the country-level AdminCode matches exactly
\* the entries whose slots 1..3 are all null, never an entry with one of
\* them populated.
C8_Original ==
    (AfterAnnotate /\ admin_level = 0) => matched = CountryNullRows

----------------------------------------------------------------------------
(* The claims about clim_to_parquet *)

\* an argument clim_to_parquet is to refuse: an admin level outside 0..3, an
\* unsupported GADM version, a missing source or output directory
BadArguments ==
    \/ \E i \in 1..Len(b_in.levels) : b_in.levels[i] \notin gadm_levels
    \/ b_in.gadm_version \notin gadm_versions
    \/ ~b_in.dir_exists
    \/ ~b_in.dir_to_exists

\* C9: a call with a bad argument ends in an error (it never returns
\* normally) and does so before any directory is listed or any output is
\* written.
C9_Original ==
    (b_pc # "start" /\ BadArguments) =>
        /\ b_listed = 0
        /\ b_written = {}
        /\ b_pc # "done"

\* the (wrapper, level) pairs of the call
AllPairs ==
    {<<Wrappers[k].fn, i>> : k \in 1..Len(Wrappers), i \in 1..Len(b_in.levels)}

\* C10: in a call with good arguments, a pair with no matching file gets
\* exactly one warning and no error, no output is written for it, and the
\* batch goes on through every remaining pair: once it has ended, every pair
\* has been processed.
C10_Original ==
    ~BadArguments =>
        /\ Len(b_warnings) = Cardinality(b_processed)
        /\ b_warnings # <<>> => b_written = {}
        /\ (b_warnings # <<>> /\ b_pc \in {"done", "error"}) =>
            (b_pc = "done" /\ b_err = "" /\ b_processed = AllPairs)

----------------------------------------------------------------------------
(* The extractor's documented return value; ambiguous matches *)

\* C15: for a level L in 0..3 and a name that carries exactly the digit
\* groups of that level, _get_admin_data returns a list of five integers:
\* element 0 is 0, elements 1..L are the name's admin-unit codes in order,
\* elements L+1..3 are 0 and element 4 is the GID code version (1 for
\* level 0, whose name carries none).
C15_ReturnsTheDocumentedFive ==
    (AfterExtract /\ Len(codes) = GroupsOfLevel(admin_level)) =>
        /\ err # "AttributeError"
        /\ Len(admin_data) = 1
        /\ LET a == admin_data[1]
               L == admin_level
           IN  /\ Len(a) = 5
               /\ \A i \in 1..5 : a[i] \in Nat
               /\ a[1] = 0
               /\ \A i \in 1..L : a[i + 1] = codes[i]
               /\ \A j \in (L + 1)..3 : a[j + 1] = 0
               /\ a[5] = IF L = 0 THEN 1 ELSE codes[L + 1]

C15_Witness ==
    /\ pc = "extracted"
    /\ admin_level = 2
    /\ codes = <<1, 0, 10>>
    /\ admin_data = << <<0, 1, 0, 0, 10>> >>

\* C14: when more than one entry of the table matches the AdminCode, the
\* annotator ends in an error and stamps no identifier; it never picks one
\* of the entries.
C14_Original ==
    (AfterAnnotate /\ Len(matched) > 1) =>
        /\ pc = "error"
        /\ ~HasColumn(data, "admin_unit_uid")

----------------------------------------------------------------------------
(* Whether the extractor's list tells the administrative unit *)

\* the integers of the names that follow the convention at some level
LevelNames == {cs \in CodeSeqs : Len(cs) \in {GroupsOfLevel(l) : l \in gadm_levels}}

\* the level whose names carry n digit groups
LevelOfGroups(n) == CHOOSE l \in gadm_levels : GroupsOfLevel(l) = n

\* what _get_admin_data returns for the name written from cs, at its level
ListOf(cs) ==
    _get_admin_data(FileName(cs, CHIRPS), LevelOfGroups(Len(cs)), v410).result

\* no admin-unit code of the name is 0 (the last integer, the GID code
\* version, may be)
NoZeroCode(cs) == \A i \in 1..(Len(cs) - 1) : cs[i] >= 1

\* C16 (as stated): whatever non-negative integers the digit groups hold, 0
\* included, the list of a name is the list of no other name: not of a
\* country-level name against a subnational one, not of two subnational
\* names that differ in depth, in a code or in the code version.
C16_Original ==
    (pc = "extracted" /\ Len(codes) = GroupsOfLevel(admin_level)) =>
        \A cs \in LevelNames : cs # codes => ListOf(cs) # admin_data

\* C16 (amended): among names none of whose admin-unit codes is 0, the list
\* of a name is the list of no other name: the country-level list differs
\* from every subnational one, and subnational names that differ in depth,
\* in a code or in the code version get different lists.
C16_NoCollisionWithoutZeroCodes ==
    (pc = "extracted" /\ Len(codes) = GroupsOfLevel(admin_level)
        /\ NoZeroCode(codes)) =>
        \A cs \in LevelNames :
            (NoZeroCode(cs) /\ cs # codes) => ListOf(cs) # admin_data

C16_Witness ==
    /\ pc = "extracted"
    /\ admin_level = 2
    /\ codes = <<1, 10, 1>>
    /\ admin_data = << <<0, 1, 10, 0, 1>> >>
    /\ ListOf(<<1, 10>>) = << <<0, 1, 0, 0, 10>> >>

----------------------------------------------------------------------------
(* data-raw/admin_unit_ids.py: the table of admin units made from GADM *)

MaxGadm == 2

\* a level GADM has no unit for: the empty text of the source layer
Empty == 0

\* the rows of the GADM layer, as their GID_0..GID_3 cells: the levels a
\* unit has are populated from GID_0 on, the levels it lacks hold the
\* layer's missing value mk.  NAME_0..NAME_3 go with the GIDs (a GID has
\* one name), so a row is told by its GIDs.
GadmRowsOf(mk) ==
    {r \in [1..4 -> {1, 2, mk}] :
        /\ r[1] # mk
        /\ \A j \in 1..3 : r[j] = mk => r[j + 1] = mk
        /\ r[3] # 2 /\ r[4] # 2}

GadmLayers ==
    UNION {[1..n -> GadmRowsOf(mk)] : n \in 0..MaxGadm, mk \in {Empty, Null}}

\* DataFrame.drop_duplicates(): the first of equal rows is kept (missing
\* cells count as equal)
RECURSIVE DropDuplicates(_)
DropDuplicates(rows) ==
    IF rows = <<>> THEN <<>>
    ELSE LET init == DropDuplicates(SubSeq(rows, 1, Len(rows) - 1))
             last == rows[Len(rows)]
         IN  IF \E k \in 1..Len(init) : init[k] = last THEN init
             ELSE Append(init, last)

\* data_pd[gid_names + readable_names] for level i, as pd.concat leaves it:
\* the columns of the deeper levels are missing
TopLevelRows(data_pd, i) ==
    DropDuplicates([k \in 1..Len(data_pd) |->
        [j \in 1..4 |-> IF j <= i + 1 THEN data_pd[k][j] ELSE Null]])

\* lines 51-67: the entries of levels 0, 1, 2, then data_pd, numbered
MakeAdminUnits(data_pd) ==
    LET all == TopLevelRows(data_pd, 0) \o TopLevelRows(data_pd, 1)
                   \o TopLevelRows(data_pd, 2) \o data_pd
    IN  [k \in 1..Len(all) |-> [gid |-> all[k], admin_unit_id |-> k - 1]]

\* lines 34-45: read the layer, keep the columns, drop duplicates
GadmRead ==
    /\ gadm.pc = "start"
    /\ \E layer \in GadmLayers :
        gadm' = [pc |-> "read", data_gpd |-> layer,
                 data_pd |-> DropDuplicates(layer), data |-> <<>>]
    /\ UNCHANGED <<fileVars, batchVars, loop, trip>>

\* lines 49-68: add the top-level entries, assign the ids, save
GadmAssignIds ==
    /\ gadm.pc = "read"
    /\ gadm' = [gadm EXCEPT !.pc = "done", !.data = MakeAdminUnits(gadm.data_pd)]
    /\ UNCHANGED <<fileVars, batchVars, loop, trip>>

NextGadm == GadmRead \/ GadmAssignIds

SpecGadm == Init /\ [][NextGadm]_vars

\* the administrative unit a row of GID cells denotes: its populated levels
UnitOf(gid) == SelectSeq(gid, LAMBDA c : c \notin {Empty, Null})

\* C11: in the generated table the ids are exactly 0..N-1 (no gap, no
\* duplicate), every unit of the input has an entry, and two entries never
\* denote the same administrative unit: a unit has one entry and one id.
C11_Original ==
    gadm.pc = "done" =>
        LET t == gadm.data
        IN  /\ \A k \in 1..Len(t) : t[k].admin_unit_id = k - 1
            /\ \A k \in 1..Len(gadm.data_gpd) :
                   \E e \in 1..Len(t) : UnitOf(t[e].gid) = UnitOf(gadm.data_gpd[k])
            /\ \A e, f \in 1..Len(t) :
                   UnitOf(t[e].gid) = UnitOf(t[f].gid) => e = f

----------------------------------------------------------------------------
(* tools.py: a whole call of _files_to_parquet *)

MaxFiles == 2

\* the names in the list: of a country, of level 1 and of level 2, codes 0
\* and 1, GID code version 1
LoopNames ==
    {<<>>} \cup {c \o <<1>> : c \in [1..1 -> {0, 1}] \cup [1..2 -> {0, 1}]}

LoopFiles == UNION {[1..n -> LoopNames] : n \in 0..MaxFiles}

LoopLevels == {0, 1, 2}

LoopTableRows ==
    [admin_unit_0 : {0}, admin_unit_1 : {0, 1}, admin_unit_2 : {0, 1},
     admin_unit_3 : {0}, gid_code_version : {1}]

LoopTables ==
    {WithUid(c) : c \in UNION {[1..n -> LoopTableRows] : n \in 0..MaxTable}}

\* pd.read_csv of the k-th file of the list: every file has its own values
CsvFile(k) ==
    [columns |-> <<"value">>,
     rows |-> [i \in 1..MaxRows |-> <<100 * k + 10 * i>>]]

RECURSIVE ConcatRows(_)
ConcatRows(dfs) ==
    IF dfs = <<>> THEN <<>> ELSE Head(dfs).rows \o ConcatRows(Tail(dfs))

\* a concatenation that keeps the first frame only
concat_first_only(dfs) == dfs[1]

\* pd.concat(data_list) of frames of the same columns
Concat(dfs) == [columns |-> dfs[1].columns, rows |-> ConcatRows(dfs)]

\* a loop that leaves out a file it cannot annotate and goes on
loop_body_skip_failed(st) ==
    LET k == st.i + 1
        df == CsvFile(k)
        e == _get_admin_data(FileName(st.files[k], CHIRPS), st.admin_level, v410)
    IN  IF e.error # ""
        THEN [st EXCEPT !.i = k]
        ELSE LET a == _add_admin_data(df, e.result[1], st.admin_unit_uids)
             IN  IF a.error # ""
                 THEN [st EXCEPT !.i = k]
                 ELSE [st EXCEPT !.i = k,
                                 !.data_list = Append(st.data_list, a.data)]

\* the body of `for file in files`: read, extract, annotate, append; an
\* exception of either call leaves the function
LoopBody(st) ==
    LET k == st.i + 1
        df == CsvFile(k)
        e == _get_admin_data(FileName(st.files[k], CHIRPS), st.admin_level, v410)
    IN  IF e.error # ""
        THEN [st EXCEPT !.pc = "error", !.err = e.error]
        ELSE LET a == _add_admin_data(df, e.result[1], st.admin_unit_uids)
             IN  IF a.error # ""
                 THEN [st EXCEPT !.pc = "error", !.err = a.error]
                 ELSE [st EXCEPT !.i = k,
                                 !.data_list = Append(st.data_list, a.data)]

\* _files_to_parquet(files, to, admin_level, gadm_version, admin_unit_uids)
FilesToParquet ==
    /\ loop.pc = "start"
    /\ \E files \in LoopFiles, level \in LoopLevels, table \in LoopTables :
        loop' = [loop EXCEPT !.pc = "loop", !.files = files,
                             !.admin_level = level,
                             !.admin_unit_uids = table]
    /\ UNCHANGED <<fileVars, batchVars, gadm, trip>>

\* one iteration of the loop
LoopFile ==
    /\ loop.pc = "loop"
    /\ loop.i < Len(loop.files)
    /\ loop' = LoopBody(loop)
    /\ UNCHANGED <<fileVars, batchVars, gadm, trip>>

\* df = pd.concat(data_list), which raises ValueError for an empty list;
\* pa.Table.from_pandas; pq.write_table(table, to)
ConcatWrite ==
    /\ loop.pc = "loop"
    /\ loop.i = Len(loop.files)
    /\ loop' = IF loop.data_list = <<>>
               THEN [loop EXCEPT !.pc = "error", !.err = "ValueError"]
               ELSE [loop EXCEPT !.pc = "written",
                                 !.out = <<Concat(loop.data_list)>>]
    /\ UNCHANGED <<fileVars, batchVars, gadm, trip>>

NextLoop == FilesToParquet \/ LoopFile \/ ConcatWrite

SpecLoop == Init /\ [][NextLoop]_vars

\* the files of the list are those of one (data source, admin level) pair:
\* each name carries the digit groups of the level
FilesOfThePair ==
    \A k \in 1..Len(loop.files) :
        Len(loop.files[k]) = GroupsOfLevel(loop.admin_level)

\* the admin-unit codes of a name: its integers but the last
UnitCodes(cs) == IF cs = <<>> THEN <<>> ELSE SubSeq(cs, 1, Len(cs) - 1)

\* the rows of the output that come from the k-th file
RowsOfFile(out, k) ==
    SubSeq(out.rows, (k - 1) * MaxRows + 1, k * MaxRows)

ExtractFails(k) == Len(loop.files[k]) < GroupsOfLevel(loop.admin_level)

\* no entry of the table equals the list of the k-th name
MatchFails(k) ==
    /\ ~ExtractFails(k)
    /\ \A e \in 1..Len(loop.admin_unit_uids) :
          CellsOf(loop.admin_unit_uids[e]) #
              DocumentedList(SubSeq(loop.files[k], 1,
                                    GroupsOfLevel(loop.admin_level)))

\* C17: an output is written only after every file of the list has been
\* read, parsed and annotated, and it holds the rows of them all; when the
\* list is empty or extraction or matching fails on some file, the call
\* ends in an error and nothing has been written.
C17_WriteOnlyAfterAllFiles ==
    /\ loop.out # <<>> =>
        /\ loop.pc = "written"
        /\ loop.files # <<>>
        /\ loop.i = Len(loop.files)
        /\ Len(loop.data_list) = Len(loop.files)
        /\ Len(loop.out[1].rows) = Len(loop.files) * MaxRows
    /\ loop.pc = "error" => loop.out = <<>>
    /\ (loop.pc \in {"written", "error"} /\
            (loop.files = <<>> \/ \E k \in 1..Len(loop.files) :
                                      ExtractFails(k) \/ MatchFails(k))) =>
        (loop.pc = "error" /\ loop.out = <<>>)

C17_Witness ==
    /\ loop.pc = "error"
    /\ Len(loop.files) = 2
    /\ loop.i = 1
    /\ Len(loop.data_list) = 1
    /\ MatchFails(2)
    /\ loop.out = <<>>

----------------------------------------------------------------------------
(* A reference table built from a corpus of file names, then used on it *)

MaxCorpus == 2

\* the integers of the names of the corpus: a country, units of level 1 and
\* of level 2, GID code versions 1 and 10
TripCodes ==
    {<<>>} \cup {c \o <<g>> : c \in {<<0>>, <<1>>, <<1, 0>>, <<1, 1>>},
                             g \in {1, 10}}

\* the files of the corpus: the integers of the name and the data source
TripFiles == [codes : TripCodes, source : {"CHIRPS", "PERSIANN"}]

TripCorpora == {c \in SUBSET TripFiles : Cardinality(c) <= MaxCorpus}

NameOf(f) == FileName(f.codes, data_info[f.source].data_regex)

\* the (file, level) pairs _find_clim_files gives over all data sources and
\* admin levels
FoundPairs(corpus) ==
    LET fs == [dir_exists |-> TRUE, dir |-> {NameOf(f) : f \in corpus}]
    IN  {p \in corpus \X gadm_levels :
            \E source \in DOMAIN data_info :
                NameOf(p[1]) \in
                    _find_clim_files(fs, source, p[2], v410).files}

\* the order of the table: the four slots ascending, then the code version
LexLeq(a, b) ==
    \/ a = b
    \/ \E i \in 1..5 : a[i] < b[i] /\ \A j \in 1..(i - 1) : a[j] = b[j]

RECURSIVE SortCodes(_)
SortCodes(S) ==
    IF S = {} THEN <<>>
    ELSE LET m == CHOOSE x \in S : \A y \in S : LexLeq(x, y)
         IN  <<m>> \o SortCodes(S \ {m})

\* the table builder: the lists of all the files found, without
\* duplicates, sorted, each with its rank as uid
make_admin_unit_ids(corpus) ==
    LET lists == {_get_admin_data(NameOf(p[1]), p[2], v410).result[1] :
                     p \in FoundPairs(corpus)}
        sorted == SortCodes(lists)
    IN  [k \in 1..Len(sorted) |->
            [admin_unit_0 |-> sorted[k][1], admin_unit_1 |-> sorted[k][2],
             admin_unit_2 |-> sorted[k][3], admin_unit_3 |-> sorted[k][4],
             gid_code_version |-> sorted[k][5], uid |-> k - 1]]

\* _get_admin_data, then _add_admin_data, on one file of a pair: the id
\* stamped on its rows, or the error
Resolve(f, level, table) ==
    LET e == _get_admin_data(NameOf(f), level, v410)
    IN  IF e.error # ""
        THEN [file |-> f, level |-> level, uid |-> <<>>, err |-> e.error]
        ELSE LET a == _add_admin_data(CsvData(MaxRows), e.result[1], table)
             IN  IF a.error # ""
                 THEN [file |-> f, level |-> level, uid |-> <<>>, err |-> a.error]
                 ELSE [file |-> f, level |-> level,
                       uid |-> <<a.data.rows[1][2]>>, err |-> ""]

\* the table is built from the corpus
MakeAdminUnitIds ==
    /\ trip.pc = "start"
    /\ \E corpus \in TripCorpora :
        trip' = [pc |-> "built", corpus |-> corpus,
                 table |-> make_admin_unit_ids(corpus), res |-> {}]
    /\ UNCHANGED <<fileVars, batchVars, gadm, loop>>

\* one file of the corpus is taken through the extractor and the annotator
ResolveFile ==
    /\ trip.pc = "built"
    /\ \E p \in FoundPairs(trip.corpus) :
        /\ \A r \in trip.res : r.file # p[1]
        /\ trip' = [trip EXCEPT !.res = @ \cup {Resolve(p[1], p[2], trip.table)}]
    /\ UNCHANGED <<fileVars, batchVars, gadm, loop>>

NextTrip == MakeAdminUnitIds \/ ResolveFile

SpecTrip == Init /\ [][NextTrip]_vars

\* C12 (as stated): every file of the corpus resolves, and two files get
\* the same id if and only if they are of the same administrative unit and
\* code version (their names carry the same integers).
C12_Original ==
    /\ \A r \in trip.res : r.err = "" /\ Len(r.uid) = 1
    /\ \A r, q \in trip.res :
          (r.uid = q.uid) <=> (r.file.codes = q.file.codes)

\* C12 (amended): every file of the corpus resolves to the uid of an entry
\* of the table; two files of the same administrative unit and code version
\* get the same id; and two files none of whose admin-unit codes is 0 get
\* the same id only if they are of the same unit and code version.
C12_RoundTripWithoutZeroCodes ==
    /\ \A r \in trip.res :
          /\ r.err = ""
          /\ Len(r.uid) = 1
          /\ r.uid[1] \in 0..(Len(trip.table) - 1)
    /\ \A r, q \in trip.res :
          /\ r.file.codes = q.file.codes => r.uid = q.uid
          /\ (NoZeroCode(r.file.codes) /\ NoZeroCode(q.file.codes)
                 /\ r.uid = q.uid) => r.file.codes = q.file.codes

C12_Witness ==
    /\ trip.pc = "built"
    /\ Len(trip.table) = 2
    /\ \E r, q \in trip.res :
          /\ r.file.codes = <<1, 1>> /\ r.uid = <<0>>
          /\ q.file.codes = <<1, 1, 10>> /\ q.uid = <<1>>

============================================================================
